---- MODULE Spec2Model ----
(***************************************************************************)
(* Model of the WhatsApp booking wizard of src/main.py: the in-memory      *)
(* conversation store, the POST /webhook handler and the handlers,         *)
(* validators and senders it calls.                                        *)
(*                                                                         *)
(* A text is a sequence of one-character strings.  A conversation state is *)
(* a Python dict, modelled as a function whose DOMAIN is the set of keys   *)
(* present; the store `conversations` is a function whose DOMAIN is the    *)
(* set of senders that have an entry.                                      *)
(***************************************************************************)
EXTENDS Integers, Sequences, FiniteSets, TLC

----------------------------------------------------------------------------
(* Characters and pure text helpers                                        *)

Digits == <<"0", "1", "2", "3", "4", "5", "6", "7", "8", "9">>

IsDigit(c) == \E i \in 1..10 : Digits[i] = c

DigitVal(c) == (CHOOSE i \in 1..10 : Digits[i] = c) - 1

Whitespace == {" ", "\t", "\n"}

Upper == <<"A", "B", "C", "D", "E", "F", "G", "H", "I", "J", "K", "L", "M",
           "N", "O", "P", "Q", "R", "S", "T", "U", "V", "W", "X", "Y", "Z">>

LowerOf == <<"a", "b", "c", "d", "e", "f", "g", "h", "i", "j", "k", "l", "m",
             "n", "o", "p", "q", "r", "s", "t", "u", "v", "w", "x", "y", "z">>

\* str.lower(): cased letters are mapped, every other character is kept.
LowerChar(c) ==
    IF \E i \in 1..26 : Upper[i] = c
    THEN LowerOf[CHOOSE i \in 1..26 : Upper[i] = c]
    ELSE c

Lower(t) == [i \in 1..Len(t) |-> LowerChar(t[i])]

\* str.strip(): drop leading and trailing whitespace.
RECURSIVE LStrip(_)
LStrip(t) ==
    IF t # <<>> /\ Head(t) \in Whitespace THEN LStrip(Tail(t)) ELSE t

RECURSIVE RStrip(_)
RStrip(t) ==
    IF t # <<>> /\ t[Len(t)] \in Whitespace
    THEN RStrip(SubSeq(t, 1, Len(t) - 1))
    ELSE t

Strip(t) == RStrip(LStrip(t))

\* The pieces of t between occurrences of the character sep.
RECURSIVE SplitOn(_, _)
SplitOn(t, sep) ==
    IF \A i \in 1..Len(t) : t[i] # sep
    THEN <<t>>
    ELSE LET k == CHOOSE i \in 1..Len(t) :
                      t[i] = sep /\ \A j \in 1..(i - 1) : t[j] # sep
         IN  <<SubSeq(t, 1, k - 1)>> \o SplitOn(SubSeq(t, k + 1, Len(t)), sep)

AllDigits(t) == \A i \in 1..Len(t) : IsDigit(t[i])

\* Value of a sequence of decimal digits.
RECURSIVE ToInt(_)
ToInt(t) ==
    IF t = <<>> THEN 0
    ELSE 10 * ToInt(SubSeq(t, 1, Len(t) - 1)) + DigitVal(t[Len(t)])

----------------------------------------------------------------------------
(* Validators                                                              *)

IsLeap(y) == (y % 4 = 0 /\ y % 100 # 0) \/ y % 400 = 0

DaysInMonth(y, m) ==
    IF m = 2 THEN (IF IsLeap(y) THEN 29 ELSE 28)
    ELSE IF m \in {4, 6, 9, 11} THEN 30 ELSE 31

\* %d of strptime: 3[0-1] | [1-2]\d | 0[1-9] | [1-9] | " "[1-9]
MatchesDay(t) ==
    \/ Len(t) = 2 /\ t[1] = "3" /\ t[2] \in {"0", "1"}
    \/ Len(t) = 2 /\ t[1] \in {"1", "2"} /\ IsDigit(t[2])
    \/ Len(t) = 2 /\ t[1] \in {"0", " "} /\ IsDigit(t[2]) /\ t[2] # "0"
    \/ Len(t) = 1 /\ IsDigit(t[1]) /\ t[1] # "0"

\* %m of strptime: 1[0-2] | 0[1-9] | [1-9]
MatchesMonth(t) ==
    \/ Len(t) = 2 /\ t[1] = "1" /\ t[2] \in {"0", "1", "2"}
    \/ Len(t) = 2 /\ t[1] = "0" /\ IsDigit(t[2]) /\ t[2] # "0"
    \/ Len(t) = 1 /\ IsDigit(t[1]) /\ t[1] # "0"

\* %Y of strptime: \d\d\d\d
MatchesYear(t) == Len(t) = 4 /\ AllDigits(t)

\* Day number of a text that matches %d (its leading space or zero dropped).
DayVal(t) == ToInt(SelectSeq(t, IsDigit))

\* is_valid_date: datetime.strptime(date_str, "%d/%m/%Y") does not raise.
\* The whole string must match the format, and datetime must accept the
\* year (MINYEAR is 1), month and day.
is_valid_date(date_str) ==
    LET parts == SplitOn(date_str, "/")
    IN  /\ Len(parts) = 3
        /\ MatchesDay(parts[1])
        /\ MatchesMonth(parts[2])
        /\ MatchesYear(parts[3])
        /\ ToInt(parts[3]) >= 1
        /\ DayVal(parts[1]) <= DaysInMonth(ToInt(parts[3]), ToInt(parts[2]))

\* The digit groups of an int() literal: non-empty groups of digits joined
\* by single underscores.
IsIntBody(t) ==
    LET groups == SplitOn(t, "_")
    IN  \A i \in 1..Len(groups) : groups[i] # <<>> /\ AllDigits(groups[i])

\* int(num_str): surrounding whitespace is ignored, one sign is allowed.
IntParses(num_str) ==
    LET s == Strip(num_str)
    IN  /\ s # <<>>
        /\ IF s[1] \in {"+", "-"} THEN IsIntBody(Tail(s)) ELSE IsIntBody(s)

IntValue(num_str) ==
    LET s    == Strip(num_str)
        body == IF s[1] \in {"+", "-"} THEN Tail(s) ELSE s
        mag  == ToInt(SelectSeq(body, IsDigit))
    IN  IF s[1] = "-" THEN 0 - mag ELSE mag

\* is_valid_number: int(num_str) > 0, False when int() raises ValueError.
is_valid_number(num_str) == IntParses(num_str) /\ IntValue(num_str) > 0

----------------------------------------------------------------------------
(* Configuration, inputs and outcomes of the external calls                *)

ADMIN_PHONE == "972500000000"

Senders == {"972501111111", "972502222222"}

\* The keywords of the cancel check of handle_text_message.
CancelWords ==
    { <<"ב", "י", "ט", "ו", "ל">>,
      <<"ב", "ט", "ל">>,
      <<"ה", "ת", "ח", "י", "ל", " ", "מ", "ח", "ד", "ש">>,
      <<"מ", "ח", "ד", "ש">>,
      <<"ח", "ד", "ש">> }

CancelBody == <<"ב", "י", "ט", "ו", "ל">>
BlankBody  == <<" ">>
DateBody   == <<"3", "1", "/", "1", "2", "/", "2", "0", "2", "6">>
CountBody  == <<"1", "5", "0">>
WeddingTitle == <<"ח", "ת", "ו", "נ", "ה">>

\* Text bodies as delivered by the provider, before strip().
Bodies == {CancelBody, BlankBody, DateBody, CountBody, WeddingTitle}

\* Rows of the event type list: id and title.
ListRows == { [id |-> "wedding", title |-> WeddingTitle] }

ButtonIds == {"start", "other"}

NoMedia == "None"
UploadOutcomes == {NoMedia, "media_1"}

\* requests.post: a 200 response, another response, or an exception.
SendOutcomes == {"200", "non200", "raise"}

\* The most requests one delivery posts to the messages endpoint: the
\* cancel notice, the welcome image and the start button.
MaxSends == 3

\* Outcomes of the calls of one delivery: of upload_image, and of the i-th
\* post.  Nothing is posted after a post that raised.
Outcomes ==
    { oc \in [upload : UploadOutcomes, sends : [1..MaxSends -> SendOutcomes]] :
        \A i, j \in 1..MaxSends :
            (i < j /\ oc.sends[i] = "raise") => oc.sends[j] = "200" }

AllOk == [upload |-> "media_1", sends |-> [i \in 1..MaxSends |-> "200"]]

NoSummary ==
    [date |-> <<>>, event_type |-> <<>>, location |-> <<>>, guests |-> <<>>,
     phone |-> ""]

----------------------------------------------------------------------------
(* Python dicts                                                            *)

DictSet(d, k, v) == [x \in DOMAIN d \cup {k} |-> IF x = k THEN v ELSE d[x]]

DictDel(d, k) == [x \in DOMAIN d \ {k} |-> d[x]]

EmptyDict == [x \in {} |-> 0]

\* state[key] = value on the dict stored for sender (handlers mutate the
\* dict object that conversations[sender] refers to).
StateSet(conv, sender, k, v) ==
    DictSet(conv, sender, DictSet(conv[sender], k, v))

----------------------------------------------------------------------------
(* Messaging functions.  A run r of a delivery carries the store, the      *)
(* requests posted so far, the result of upload_image and the exception    *)
(* that ended the run ("None" while it runs).                              *)

Run(conv) == [conv |-> conv, out |-> <<>>, upload |-> "NotCalled", exc |-> "None"]

\* One requests.post to the messages endpoint.  An exception raised by the
\* call leaves the function that posted, and every caller up to the
\* except clause of handle_webhook.
Post(r, type, to, tag, summary, oc) ==
    IF r.exc # "None" THEN r
    ELSE LET o == oc.sends[Len(r.out) + 1]
         IN  [r EXCEPT
                !.out = Append(@, [type |-> type, to |-> to, tag |-> tag,
                                   summary |-> summary, outcome |-> o]),
                !.exc = IF o = "raise" THEN "RequestException" ELSE "None"]

send_message(r, to, tag, summary, oc) == Post(r, "text", to, tag, summary, oc)

send_welcome_image(r, sender, oc) ==
    Post(r, "image", sender, "WelcomeImage", NoSummary, oc)

send_start_button(r, sender, oc) ==
    Post(r, "button", sender, "start", NoSummary, oc)

send_event_type_list(r, sender, oc) ==
    Post(r, "list", sender, "EventTypeList", NoSummary, oc)

\* upload_image never raises: every failure is turned into None.
upload_image(r, oc) ==
    IF r.exc # "None" THEN r ELSE [r EXCEPT !.upload = oc.upload]

send_welcome_message(r, sender, oc) ==
    LET r1 == upload_image(r, oc)
        r2 == IF r1.upload # NoMedia THEN send_welcome_image(r1, sender, oc)
              ELSE r1
    IN  send_start_button(r2, sender, oc)

\* The f-strings of both summaries read four keys of the state: a missing
\* key is a KeyError.
SummaryKeys == {"date", "event_type", "location", "guests"}

SummaryOf(state, phone) ==
    [date |-> state["date"], event_type |-> state["event_type"],
     location |-> state["location"], guests |-> state["guests"],
     phone |-> phone]

\* Mutant of send_customer_confirmation: the confirmation goes to the admin.
send_customer_confirmation_to_admin(r, sender, oc) ==
    IF r.exc # "None" THEN r
    ELSE IF ~(SummaryKeys \subseteq DOMAIN r.conv[sender])
    THEN [r EXCEPT !.exc = "KeyError"]
    ELSE send_message(r, ADMIN_PHONE, "CustomerConfirmation",
                      SummaryOf(r.conv[sender], ""), oc)

send_customer_confirmation(r, sender, oc) ==
    IF r.exc # "None" THEN r
    ELSE IF ~(SummaryKeys \subseteq DOMAIN r.conv[sender])
    THEN [r EXCEPT !.exc = "KeyError"]
    ELSE send_message(r, sender, "CustomerConfirmation",
                      SummaryOf(r.conv[sender], ""), oc)

send_admin_notification(r, sender, oc) ==
    IF r.exc # "None" THEN r
    ELSE IF ~(SummaryKeys \subseteq DOMAIN r.conv[sender])
    THEN [r EXCEPT !.exc = "KeyError"]
    ELSE send_message(r, ADMIN_PHONE, "AdminNotification",
                      SummaryOf(r.conv[sender], sender), oc)

----------------------------------------------------------------------------
(* Conversation handlers                                                   *)

\* Mutant of start_conversation: a sender that has a state keeps its fields
\* and goes back to step 1.
start_conversation_keeping_fields(r, sender, oc) ==
    send_message([r EXCEPT !.conv =
                     IF sender \in DOMAIN @
                     THEN StateSet(@, sender, "step", 1)
                     ELSE DictSet(@, sender, [step |-> 1])],
                 sender, "DatePrompt", NoSummary, oc)

start_conversation(r, sender, oc) ==
    send_message([r EXCEPT !.conv = DictSet(@, sender, [step |-> 1])],
                 sender, "DatePrompt", NoSummary, oc)

\* Mutant of cancel_conversation: the entry of the sender is not deleted.
cancel_conversation_keeping_state(r, sender, oc) ==
    send_welcome_message(send_message(r, sender, "Cancelled", NoSummary, oc),
                         sender, oc)

cancel_conversation(r, sender, oc) ==
    LET r1 == IF sender \in DOMAIN r.conv
              THEN [r EXCEPT !.conv = DictDel(@, sender)]
              ELSE r
        r2 == send_message(r1, sender, "Cancelled", NoSummary, oc)
    IN  IF r2.exc # "None" THEN r2 ELSE send_welcome_message(r2, sender, oc)

\* Mutant of handle_date_input: a valid date moves the sender to step 3.
handle_date_input_skipping(r, sender, text, oc) ==
    IF ~is_valid_date(text)
    THEN send_message(r, sender, "DateError", NoSummary, oc)
    ELSE LET c1 == StateSet(r.conv, sender, "date", text)
             c2 == StateSet(c1, sender, "step", 3)
         IN  send_event_type_list([r EXCEPT !.conv = c2], sender, oc)

handle_date_input(r, sender, text, oc) ==
    IF ~is_valid_date(text)
    THEN send_message(r, sender, "DateError", NoSummary, oc)
    ELSE LET c1 == StateSet(r.conv, sender, "date", text)
             c2 == StateSet(c1, sender, "step", 2)
         IN  send_event_type_list([r EXCEPT !.conv = c2], sender, oc)

\* Mutant of handle_event_type_selection: the step of the sender is not
\* looked at.
handle_event_type_selection_any_step(r, sender, selected_title, oc) ==
    IF sender \notin DOMAIN r.conv THEN r
    ELSE LET c1 == StateSet(r.conv, sender, "event_type", selected_title)
             c2 == StateSet(c1, sender, "step", 3)
         IN  send_message([r EXCEPT !.conv = c2], sender, "LocationPrompt",
                          NoSummary, oc)

handle_event_type_selection(r, sender, selected_title, oc) ==
    IF sender \notin DOMAIN r.conv THEN r
    ELSE IF "step" \in DOMAIN r.conv[sender] /\ r.conv[sender]["step"] = 2
    THEN LET c1 == StateSet(r.conv, sender, "event_type", selected_title)
             c2 == StateSet(c1, sender, "step", 3)
         IN  send_message([r EXCEPT !.conv = c2], sender, "LocationPrompt",
                          NoSummary, oc)
    ELSE r

handle_location_input(r, sender, text, oc) ==
    LET c1 == StateSet(r.conv, sender, "location", text)
        c2 == StateSet(c1, sender, "step", 4)
    IN  send_message([r EXCEPT !.conv = c2], sender, "GuestsPrompt",
                     NoSummary, oc)

\* Mutant of handle_guests_input: the text is stored before it is checked.
handle_guests_input_storing_first(r, sender, text, oc) ==
    LET r1 == [r EXCEPT !.conv = StateSet(@, sender, "guests", text)]
    IN  IF ~is_valid_number(text)
        THEN send_message(r1, sender, "GuestsError", NoSummary, oc)
        ELSE LET r3 == send_admin_notification(
                           send_customer_confirmation(r1, sender, oc),
                           sender, oc)
             IN  IF r3.exc # "None" THEN r3
                 ELSE [r3 EXCEPT !.conv = DictDel(@, sender)]

handle_guests_input(r, sender, text, oc) ==
    IF ~is_valid_number(text)
    THEN send_message(r, sender, "GuestsError", NoSummary, oc)
    ELSE LET r1 == [r EXCEPT !.conv = StateSet(@, sender, "guests", text)]
             r2 == send_customer_confirmation(r1, sender, oc)
             r3 == send_admin_notification(r2, sender, oc)
         IN  IF r3.exc # "None" THEN r3
             ELSE [r3 EXCEPT !.conv = DictDel(@, sender)]

\* Mutant of handle_text_message: at step 2 a text is not taken as the event
\* type (only a list reply is).
handle_text_message_list_only(r, sender, text, oc) ==
    IF Lower(text) \in CancelWords
    THEN cancel_conversation(r, sender, oc)
    ELSE IF sender \notin DOMAIN r.conv
    THEN send_welcome_message(r, sender, oc)
    ELSE LET step == r.conv[sender]["step"]
         IN  CASE step = 1 -> handle_date_input(r, sender, text, oc)
               [] step = 3 -> handle_location_input(r, sender, text, oc)
               [] step = 4 -> handle_guests_input(r, sender, text, oc)
               [] OTHER    -> r

handle_text_message(r, sender, text, oc) ==
    IF Lower(text) \in CancelWords
    THEN cancel_conversation(r, sender, oc)
    ELSE IF sender \notin DOMAIN r.conv
    THEN send_welcome_message(r, sender, oc)
    ELSE LET step == r.conv[sender]["step"]
         IN  CASE step = 1 -> handle_date_input(r, sender, text, oc)
               [] step = 2 -> handle_event_type_selection(r, sender, text, oc)
               [] step = 3 -> handle_location_input(r, sender, text, oc)
               [] step = 4 -> handle_guests_input(r, sender, text, oc)
               [] OTHER    -> r

----------------------------------------------------------------------------
(* POST /webhook                                                           *)

\* A delivery, by what the handler finds in the request body:
\*   BadJson     the body is not JSON: request.json() raises before the try
\*   WrongType   a value on the path is of another type than the handler
\*               indexes or calls it as: TypeError or AttributeError
\*   MissingKey  a key or list element on the path is missing: KeyError or
\*               IndexError
\*   NoMessages  value has no "messages" key (a status update)
\*   OtherType   a message that is neither text nor a button or list reply
\*   Text, Button, List   a well-formed message of that kind
Delivery(shape, from, id, text) ==
    [shape |-> shape, from |-> from, id |-> id, text |-> text]

TextDeliveries == {Delivery("Text", s, "", b) : s \in Senders, b \in Bodies}

ButtonDeliveries ==
    {Delivery("Button", s, i, <<>>) : s \in Senders, i \in ButtonIds}

ListDeliveries ==
    {Delivery("List", s, row.id, row.title) : s \in Senders, row \in ListRows}

IgnoredShapes == {"MissingKey", "NoMessages", "OtherType"}

BrokenShapes == {"BadJson", "WrongType"}

OtherDeliveries(shapes) == {Delivery(sh, "", "", <<>>) : sh \in shapes}

\* Mutant of handle_webhook: every button reply starts a conversation.
handle_webhook_any_button(conv, d, oc) ==
    LET r == Run(conv)
    IN  CASE d.shape = "BadJson"    -> [r EXCEPT !.exc = "JSONDecodeError"]
          [] d.shape = "WrongType"  -> [r EXCEPT !.exc = "TypeError"]
          [] d.shape = "MissingKey" -> [r EXCEPT !.exc = "KeyError"]
          [] d.shape = "NoMessages" -> r
          [] d.shape = "Button" -> start_conversation(r, d.from, oc)
          [] d.shape = "List" ->
                handle_event_type_selection(r, d.from, d.text, oc)
          [] d.shape = "Text" ->
                handle_text_message(r, d.from, Strip(d.text), oc)
          [] OTHER -> r

handle_webhook(conv, d, oc) ==
    LET r == Run(conv)
    IN  CASE d.shape = "BadJson"    -> [r EXCEPT !.exc = "JSONDecodeError"]
          [] d.shape = "WrongType"  -> [r EXCEPT !.exc = "TypeError"]
          [] d.shape = "MissingKey" -> [r EXCEPT !.exc = "KeyError"]
          [] d.shape = "NoMessages" -> r
          [] d.shape = "Button" ->
                IF d.id = "start" THEN start_conversation(r, d.from, oc) ELSE r
          [] d.shape = "List" ->
                handle_event_type_selection(r, d.from, d.text, oc)
          [] d.shape = "Text" ->
                handle_text_message(r, d.from, Strip(d.text), oc)
          [] OTHER -> r

\* except (KeyError, IndexError) logs and falls through to the return; any
\* other exception leaves the handler.
CaughtExceptions == {"KeyError", "IndexError"}

ResponseOf(r) ==
    IF r.exc = "None" \/ r.exc \in CaughtExceptions THEN "ok" ELSE "error"

----------------------------------------------------------------------------
(* State                                                                   *)

\* handle_webhook does not await between its first read of the store and
\* its return, so the event loop runs the deliveries one after the other.
\* The variables other than the store belong to the request being served:
\* they are filled when its handler has run and dropped when it is over.
VARIABLES
    conversations,  \* the store: sender -> state dict
    delivery,       \* the delivery of the request, NoDelivery between requests
    before,         \* the store when the delivery arrived
    outbox,         \* the requests posted to the messages endpoint
    upload,         \* the result of upload_image
    response,       \* how the handler ended: "ok", or "error" for an exception
    wizard,         \* history: the senders with a wizard in progress
    cancelled,      \* history: sender -> the step at which its latest
                    \* delivery cancelled and resent the welcome sequence
                    \* (0: without a state), -1 if it did not
    tasks,          \* the coroutines of handle_webhook on the event loop,
                    \* when the requests in flight are told apart
    arg,            \* the string given to a validator called on its own
    ret             \* <<what the validator returned for arg>>, <<>> before

vars ==
    <<conversations, delivery, before, outbox, upload, response, wizard,
      cancelled, tasks, arg, ret>>

\* No validator has been called on its own.
NoCall == arg = <<>> /\ ret = <<>>

NoDelivery == Delivery("None", "", "", <<>>)

Idle ==
    /\ delivery = NoDelivery
    /\ before = EmptyDict
    /\ outbox = <<>>
    /\ upload = "NotCalled"
    /\ response = "None"

Init ==
    /\ conversations = EmptyDict
    /\ Idle
    /\ wizard = {}
    /\ cancelled = [s \in Senders |-> -1]
    /\ tasks = <<>>
    /\ NoCall

\* The step of sender in a store, 0 without an entry.
StepIn(conv, sender) ==
    IF sender \in DOMAIN conv THEN conv[sender]["step"] ELSE 0

IsCancel(d) == d.shape = "Text" /\ Lower(Strip(d.text)) \in CancelWords

\* A wizard is in progress from the call of start_conversation to the call
\* of cancel_conversation or to the guest count that passes the check of
\* handle_guests_input.
WizardAfter(w, conv, d) ==
    IF d.shape = "Button" /\ d.id = "start" THEN w \cup {d.from}
    ELSE IF IsCancel(d) THEN w \ {d.from}
    ELSE IF /\ d.shape = "Text"
            /\ StepIn(conv, d.from) = 4
            /\ is_valid_number(Strip(d.text))
    THEN w \ {d.from}
    ELSE w

\* The outcomes of the posts a run did not make are not part of it.
Used(r, oc) ==
    /\ \A i \in 1..MaxSends : i > Len(r.out) => oc.sends[i] = "200"
    /\ r.upload = "NotCalled" => oc.upload = NoMedia

Deliveries ==
    TextDeliveries \cup ButtonDeliveries \cup ListDeliveries
        \cup OtherDeliveries(IgnoredShapes \cup BrokenShapes)

\* POST /webhook: the handler runs on a delivery, from the parsing of the
\* body to its return or to the exception that leaves it.
HandleWebhook ==
    /\ delivery = NoDelivery
    /\ \E d \in Deliveries, oc \in Outcomes :
          \E r \in {handle_webhook(conversations, d, oc)} :
             /\ Used(r, oc)
             /\ conversations' = r.conv
             /\ outbox' = r.out
             /\ upload' = r.upload
             /\ response' = ResponseOf(r)
             /\ delivery' = d
             /\ before' = conversations
             /\ wizard' = WizardAfter(wizard, conversations, d)
             /\ UNCHANGED <<cancelled, tasks, arg, ret>>

\* The request is over: the response has gone to the provider.
EndRequest ==
    /\ delivery # NoDelivery
    /\ delivery' = NoDelivery
    /\ before' = EmptyDict
    /\ outbox' = <<>>
    /\ upload' = "NotCalled"
    /\ response' = "None"
    /\ cancelled' =
          IF delivery.from \notin Senders THEN cancelled
          ELSE [cancelled EXCEPT ![delivery.from] =
                    IF IsCancel(delivery) /\ response = "ok"
                    THEN StepIn(before, delivery.from)
                    ELSE -1]
    /\ UNCHANGED <<conversations, wizard, tasks, arg, ret>>

Next == HandleWebhook \/ EndRequest

Spec == Init /\ [][Next]_vars

----------------------------------------------------------------------------
(* Observations of the request being served                                *)

Handled == delivery # NoDelivery

Sender == delivery.from

\* The text handle_text_message receives.
Text == Strip(delivery.text)

IsText == delivery.shape = "Text"

\* A posted request without its outcome.
Brief(m) == <<m.type, m.to, m.tag>>

Briefs(out) == [i \in 1..Len(out) |-> Brief(out[i])]

\* The welcome sequence for sender: the image when upload_image returned a
\* media id, then the start button.
WelcomeSequence(sender) ==
    IF upload \in {NoMedia, "NotCalled"}
    THEN << <<"button", sender, "start">> >>
    ELSE << <<"image", sender, "WelcomeImage">>, <<"button", sender, "start">> >>

\* The requests posted end with the whole welcome sequence for sender.
WelcomeEmitted(sender) ==
    LET w == WelcomeSequence(sender)
        n == Len(outbox)
    IN  /\ upload # "NotCalled"
        /\ n >= Len(w)
        /\ SubSeq(Briefs(outbox), n - Len(w) + 1, n) = w

SummaryWith(state, guests, phone) ==
    [date |-> state["date"], event_type |-> state["event_type"],
     location |-> state["location"], guests |-> guests, phone |-> phone]

----------------------------------------------------------------------------
(* Claims                                                                  *)

\* C1: when a sender at step 4 sends a valid guest count, the handler posts
\* exactly two messages, the customer confirmation to the sender and then
\* the admin notification to ADMIN_PHONE, both with the date, event type and
\* location of the sender's state and the count just received (the admin
\* one with the sender too), and the store has no entry for the sender.
C1_Completion ==
    (/\ Handled /\ IsText
     /\ StepIn(before, Sender) = 4
     /\ is_valid_number(Text))
    => /\ Len(outbox) = 2
       /\ Brief(outbox[1]) = <<"text", Sender, "CustomerConfirmation">>
       /\ Brief(outbox[2]) = <<"text", ADMIN_PHONE, "AdminNotification">>
       /\ outbox[1].summary = SummaryWith(before[Sender], Text, "")
       /\ outbox[2].summary = SummaryWith(before[Sender], Text, Sender)
       /\ Sender \notin DOMAIN conversations

\* C2: a text that is a cancellation keyword, from a sender with or without
\* a state, leaves no entry for the sender, posts the welcome sequence,
\* stores the text nowhere and ends without error.
C2_Cancellation ==
    (Handled /\ IsCancel(delivery))
    => /\ Sender \notin DOMAIN conversations
       /\ WelcomeEmitted(Sender)
       /\ \A s \in DOMAIN conversations :
              s \in DOMAIN before /\ conversations[s] = before[s]
       /\ response = "ok"

\* C3: an invalid date at step 1, or an invalid guest count at step 4,
\* leaves the store as it was and posts exactly one message, the error
\* prompt of that step to the sender (so no confirmation or notification).
C3_ValidationKeepsState ==
    LET badDate  == StepIn(before, Sender) = 1 /\ ~is_valid_date(Text)
        badCount == StepIn(before, Sender) = 4 /\ ~is_valid_number(Text)
    IN  (/\ Handled /\ IsText /\ ~IsCancel(delivery)
         /\ badDate \/ badCount)
        => /\ conversations = before
           /\ Briefs(outbox) =
                << <<"text", Sender,
                     IF badDate THEN "DateError" ELSE "GuestsError">> >>

\* Witness of C3: an invalid guest count was answered by the error prompt.
C3_Witness ==
    /\ Handled /\ IsText /\ ~IsCancel(delivery)
    /\ StepIn(before, Sender) = 4
    /\ ~is_valid_number(Text)
    /\ Len(outbox) = 1
    /\ outbox[1].tag = "GuestsError"
    /\ conversations[Sender]["step"] = 4

\* C4: the store has an entry for a sender exactly when the sender has a
\* wizard in progress (started, and since neither completed nor cancelled);
\* every entry is at one of the four steps, and no entry holding all four
\* fields is kept.
C4_StoreInvariant ==
    /\ DOMAIN conversations = wizard
    /\ \A s \in DOMAIN conversations :
          /\ conversations[s]["step"] \in 1..4
          /\ "guests" \notin DOMAIN conversations[s]

\* C5: an entry past step 1 has a non-empty date, an entry past step 2 a
\* non-empty event type, and an entry at step 4 a non-empty location.
C5_FieldsNonEmpty ==
    \A s \in DOMAIN conversations :
        LET state == conversations[s]
            Filled(k) == k \in DOMAIN state /\ state[k] # <<>>
        IN  /\ state["step"] >= 2 => Filled("date")
            /\ state["step"] >= 3 => Filled("event_type")
            /\ state["step"] >= 4 => Filled("location")

\* C6: a text that is not a cancellation keyword, from a sender without a
\* state, posts the welcome sequence and leaves the store as it was: no
\* entry is created and the text is stored nowhere.
C6_TextWithoutState ==
    (/\ Handled /\ IsText /\ ~IsCancel(delivery)
     /\ Sender \notin DOMAIN before)
    => /\ upload # "NotCalled"
       /\ Briefs(outbox) = WelcomeSequence(Sender)
       /\ conversations = before

\* C7: a start button reply from a sender without a state creates the state
\* {step: 1} for the sender and posts the date prompt; and an entry appears
\* in the store only in the handling of a start button reply of that sender.
C7_StartCreatesState ==
    Handled =>
      /\ (/\ delivery.shape = "Button" /\ delivery.id = "start"
          /\ Sender \notin DOMAIN before)
         => /\ Sender \in DOMAIN conversations
            /\ conversations[Sender] = [step |-> 1]
            /\ Briefs(outbox) = << <<"text", Sender, "DatePrompt">> >>
      /\ \A s \in DOMAIN conversations \ DOMAIN before :
            delivery.shape = "Button" /\ delivery.id = "start" /\ s = Sender

\* Witness of C7: a start button reply has created the first state.
C7_Witness ==
    /\ Handled
    /\ delivery.shape = "Button" /\ delivery.id = "start"
    /\ Sender \notin DOMAIN before
    /\ conversations[Sender] = [step |-> 1]
    /\ Len(outbox) = 1

\* C8 as claimed: after a cancellation at step 3 that deleted the state and
\* resent the welcome sequence, the text 31/12/2026 is stored as the date of
\* a fresh wizard, and not as a location.
C8_DateAfterCancelStartsOver ==
    (Handled /\ IsText /\ Text = DateBody /\ cancelled[Sender] = 3)
    => /\ Sender \in DOMAIN conversations
       /\ "date" \in DOMAIN conversations[Sender]
       /\ conversations[Sender]["date"] = DateBody
       /\ "location" \notin DOMAIN conversations[Sender]

\* C8 as amended: a cancellation at step 3 deletes the state; the text
\* 31/12/2026 that follows is stored neither as a location nor as a date:
\* the store is left as it was, without an entry for the sender, and only
\* welcome messages are posted to the sender.
C8_DateAfterCancelGetsWelcome ==
    /\ (Handled /\ IsCancel(delivery) /\ StepIn(before, Sender) = 3)
       => Sender \notin DOMAIN conversations
    /\ (Handled /\ IsText /\ Text = DateBody /\ cancelled[Sender] = 3)
       => /\ Sender \notin DOMAIN conversations
          /\ conversations = before
          /\ upload # "NotCalled"
          /\ Len(outbox) >= 1
          /\ \A i \in 1..Len(outbox) :
                Brief(outbox[i]) \in
                    { <<"image", Sender, "WelcomeImage">>,
                      <<"button", Sender, "start">> }

\* Witness of C8: the date text after a cancellation at step 3 got the
\* welcome image and the start button.
C8_Witness ==
    /\ Handled /\ IsText /\ Text = DateBody
    /\ cancelled[Sender] = 3
    /\ Len(outbox) = 2
    /\ Sender \notin DOMAIN conversations

\* C9: every delivery ends with the ok acknowledgment, whatever the payload
\* and whatever the outcome of the posts and of the upload.
C9_AlwaysAcknowledged == Handled => response = "ok"

\* C10: the store after a delivery is the store the same delivery leaves
\* when every post and the upload succeed.
C10_StoreIndependentOfSends ==
    Handled => conversations = handle_webhook(before, delivery, AllOk).conv

\* The requests of the outbox that have the brief b.
Count(b) == Cardinality({i \in 1..Len(outbox) : Brief(outbox[i]) = b})

\* C11: whenever send_welcome_message has run, the start button is posted to
\* the sender exactly once, with or without a media id; the image is posted
\* exactly when upload_image returned a media id, and then before the button.
C11_WelcomeShape ==
    (Handled /\ upload # "NotCalled")
    => LET image  == <<"image", Sender, "WelcomeImage">>
           button == <<"button", Sender, "start">>
       IN  /\ Count(button) = 1
           /\ Count(image) = (IF upload # NoMedia THEN 1 ELSE 0)
           /\ \A i, j \in 1..Len(outbox) :
                 (Brief(outbox[i]) = image /\ Brief(outbox[j]) = button)
                 => i < j

\* C12: at step 2 a list reply with title T and a text T that is not a
\* cancellation keyword have the same result: the state of the sender gets
\* event_type = T and step 3, and the location prompt is posted.
C12_EventTypeBothPaths ==
    (/\ Handled
     /\ StepIn(before, Sender) = 2
     /\ \/ delivery.shape = "List"
        \/ IsText /\ ~IsCancel(delivery))
    => LET T == IF IsText THEN Text ELSE delivery.text
       IN  /\ Sender \in DOMAIN conversations
           /\ conversations[Sender] =
                 DictSet(DictSet(before[Sender], "event_type", T), "step", 3)
           /\ Briefs(outbox) = << <<"text", Sender, "LocationPrompt">> >>

\* Witness of C12: the text of a list title was taken as the event type.
C12_Witness ==
    /\ Handled /\ IsText
    /\ StepIn(before, Sender) = 2
    /\ Text = WeddingTitle
    /\ conversations[Sender]["event_type"] = WeddingTitle
    /\ conversations[Sender]["step"] = 3

----------------------------------------------------------------------------
(* The event loop with several requests in flight                          *)

MaxInFlight == 2

\* Mutant of PostBlocks: the post is awaited, and the event loop runs the
\* other coroutines until it returns.
PostBlocks_awaited == FALSE

\* requests.post is a blocking call made from the coroutine: no other
\* coroutine runs until it has returned or raised.
PostBlocks == TRUE

\* The deliveries in flight: the wizard of one sender, the start and the
\* cancellation of the others, and a body that is not JSON.
ConcurrentDeliveries ==
    {d \in Deliveries :
        \/ d.shape = "Text" /\ d.text = CancelBody
        \/ d.shape = "Text" /\ d.text \in {DateBody, CountBody}
                            /\ d.from = "972501111111"
        \/ d.shape = "Button" /\ d.id = "start"
        \/ d.shape = "BadJson"}

ConcurrentOutcomes ==
    {oc \in Outcomes :
        /\ oc.sends[1] # "non200"
        /\ \A i \in 2..MaxSends : oc.sends[i] = "200"}

\* The coroutine of a request: it starts suspended at await request.json().
Task(d) == [d |-> d, pc |-> "json", oc |-> AllOk]

\* The one store access handle_webhook makes after a post: the del of
\* handle_guests_input, for a guest count that passes the check.
DeletesAfterPosts(conv, d) ==
    /\ d.shape = "Text"
    /\ ~IsCancel(d)
    /\ StepIn(conv, d.from) = 4
    /\ is_valid_number(Strip(d.text))

\* A request arrives while others are in flight.
Accept ==
    /\ Len(tasks) < MaxInFlight
    /\ \E d \in ConcurrentDeliveries : tasks' = Append(tasks, Task(d))
    /\ before' = IF tasks = <<>> THEN conversations ELSE before
    /\ UNCHANGED <<conversations, delivery, outbox, upload, response, wizard,
                   cancelled, arg, ret>>

\* The event loop resumes a coroutine, which runs until it suspends again or
\* ends.
Resume ==
    /\ \E i \in 1..Len(tasks), oc \in ConcurrentOutcomes :
          LET t == tasks[i]
          IN  /\ t.pc # "done"
              /\ IF t.pc = "json"
                 THEN \E r \in {handle_webhook(conversations, t.d, oc)} :
                         /\ Used(r, oc)
                         /\ IF \/ PostBlocks
                               \/ r.exc # "None"
                               \/ ~DeletesAfterPosts(conversations, t.d)
                            THEN /\ conversations' = r.conv
                                 /\ tasks' = [tasks EXCEPT ![i] =
                                        [d |-> t.d, pc |-> "done", oc |-> oc]]
                            ELSE /\ conversations' =
                                        StateSet(conversations, t.d.from,
                                                 "guests", Strip(t.d.text))
                                 /\ tasks' = [tasks EXCEPT ![i] =
                                        [d |-> t.d, pc |-> "post", oc |-> oc]]
                 ELSE /\ oc = t.oc
                      /\ conversations' =
                            IF t.d.from \in DOMAIN conversations
                            THEN DictDel(conversations, t.d.from)
                            ELSE conversations
                      /\ tasks' = [tasks EXCEPT ![i].pc = "done"]
    /\ UNCHANGED <<delivery, before, outbox, upload, response, wizard,
                   cancelled, arg, ret>>

\* Every request in flight has been answered.
Drain ==
    /\ tasks # <<>>
    /\ \A i \in 1..Len(tasks) : tasks[i].pc = "done"
    /\ tasks' = <<>>
    /\ before' = EmptyDict
    /\ UNCHANGED <<conversations, delivery, outbox, upload, response, wizard,
                   cancelled, arg, ret>>

NextConcurrent == Accept \/ Resume \/ Drain

SpecConcurrent == Init /\ [][NextConcurrent]_vars

\* The store after the deliveries of ts are handled one after the other.
RECURSIVE Serial(_, _)
Serial(conv, ts) ==
    IF ts = <<>> THEN conv
    ELSE Serial(handle_webhook(conv, Head(ts).d, Head(ts).oc).conv, Tail(ts))

Orders(n) == {p \in [1..n -> 1..n] : \A i, j \in 1..n : p[i] = p[j] => i = j}

AllDone == tasks # <<>> /\ \A i \in 1..Len(tasks) : tasks[i].pc = "done"

----------------------------------------------------------------------------
(* The steps of the wizard                                                 *)

\* The state of sender in a store.
StateIn(conv, sender) ==
    IF sender \in DOMAIN conv THEN conv[sender] ELSE EmptyDict

IsStart == delivery.shape = "Button" /\ delivery.id = "start"

\* The answer of the delivery: the stripped text, or the title of the row.
Answer == IF IsText THEN Text ELSE delivery.text

\* The delivery answers the prompt of the step its sender is at, and passes
\* the check of that step.
ValidAnswer ==
    LET step == StepIn(before, Sender)
    IN  /\ ~IsCancel(delivery)
        /\ \/ IsText /\ step = 1 /\ is_valid_date(Text)
           \/ delivery.shape \in {"Text", "List"} /\ step = 2
           \/ IsText /\ step = 3
           \/ IsText /\ step = 4 /\ is_valid_number(Text)

\* The state after the answer is stored under key and the step set to step.
Advanced(key, step) ==
    /\ Sender \in DOMAIN conversations
    /\ conversations[Sender] =
          DictSet(DictSet(before[Sender], key, Answer), "step", step)

\* C14: the step of a sender changes only 1 -> 2 on a valid date (stored),
\* 2 -> 3 on an event type (stored), 3 -> 4 on any text (stored as it is),
\* 4 -> no entry on a valid count, to no entry on a cancellation and to 1 on
\* the start button; a valid answer has exactly the effect of its step, and
\* any other answer leaves the state as it was.
C14_LinearSteps ==
    (Handled /\ Sender \in Senders)
    => LET b == StepIn(before, Sender)
           a == StepIn(conversations, Sender)
       IN  /\ a # b
              => \/ IsCancel(delivery) /\ a = 0
                 \/ IsStart /\ a = 1
                 \/ ValidAnswer /\ a = (b + 1) % 5
           /\ ValidAnswer
              => CASE b = 1 -> Advanced("date", 2)
                   [] b = 2 -> Advanced("event_type", 3)
                   [] b = 3 -> Advanced("location", 4)
                   [] OTHER -> \/ a = 0
                               \/ conversations[Sender] =
                                     DictSet(before[Sender], "guests", Answer)
           /\ (b # 0 /\ ~ValidAnswer /\ ~IsCancel(delivery) /\ ~IsStart)
              => StateIn(conversations, Sender) = StateIn(before, Sender)

\* Witness of C14: a text that is neither a date nor a number was stored as
\* the location, and the sender moved from step 3 to step 4.
C14_Witness ==
    /\ Handled /\ IsText
    /\ StepIn(before, Sender) = 3
    /\ ~is_valid_date(Text) /\ ~is_valid_number(Text)
    /\ StepIn(conversations, Sender) = 4
    /\ conversations[Sender]["location"] = Text

----------------------------------------------------------------------------
(* The validators called on their own                                      *)

\* The store is empty and no request is being served.
InitValidator(inputs) ==
    /\ conversations = EmptyDict
    /\ Idle
    /\ wizard = {}
    /\ cancelled = [s \in Senders |-> -1]
    /\ tasks = <<>>
    /\ arg \in inputs
    /\ ret = <<>>

DayTexts == {<<"3", "1">>, <<"3", "0">>, <<"2", "9">>, <<"0", "1">>, <<"1">>, <<"9">>, <<"0", "0">>, <<"3", "2">>, <<" ", "1">>}

MonthTexts == {<<"1", "2">>, <<"0", "2">>, <<"2">>, <<"0", "4">>, <<"1", "3">>, <<"0", "0">>}

YearTexts == {<<"2", "0", "2", "6">>, <<"2", "0", "2", "4">>, <<"1", "9", "0", "0">>, <<"0", "0", "0", "0">>, <<"2", "0", "2">>, <<"2", "0", "2", "6", "0">>}

DateSeparators == {"/", "-"}

DateInputs ==
    {d \o <<sep>> \o m \o <<sep>> \o y :
        d \in DayTexts, m \in MonthTexts, y \in YearTexts,
        sep \in DateSeparators}

\* is_valid_date(arg) is called.
CallIsValidDate ==
    /\ ret = <<>>
    /\ ret' = <<is_valid_date(arg)>>
    /\ UNCHANGED <<conversations, delivery, before, outbox, upload, response,
                   wizard, cancelled, tasks, arg>>

InitDate == InitValidator(DateInputs)

NextDate == CallIsValidDate

SpecDate == InitDate /\ [][NextDate]_vars

\* dd/mm/yyyy with two digits of day, two of month and four of year, naming
\* a day of the calendar.
IsPaddedCalendarDate(t) ==
    /\ Len(t) = 10
    /\ t[3] = "/" /\ t[6] = "/"
    /\ AllDigits(SubSeq(t, 1, 2) \o SubSeq(t, 4, 5) \o SubSeq(t, 7, 10))
    /\ LET d == ToInt(SubSeq(t, 1, 2))
           m == ToInt(SubSeq(t, 4, 5))
           y == ToInt(SubSeq(t, 7, 10))
       IN  /\ y >= 1
           /\ m \in 1..12
           /\ d \in 1..DaysInMonth(y, m)

\* C15: is_valid_date returns True exactly for the strings dd/mm/yyyy with a
\* zero-padded day of two digits, a zero-padded month of two digits, a year
\* of four digits, that name a day of the calendar.
C15_DateValidatorExact ==
    ret # <<>> => ret[1] = IsPaddedCalendarDate(arg)

NumberPrefixes == {<<>>, <<"+">>, <<"-">>, <<" ">>}

NumberBodies == {<<"5">>, <<"0">>, <<"0", "5">>, <<"1", "5", "0">>, <<"1", "_", "0">>, <<"1", " ", "5">>, <<"1", ",", "0", "0", "0">>, <<"5", ".", "0">>, <<>>, <<"a">>}

NumberSuffixes == {<<>>, <<" ">>, <<"_">>}

NumberInputs ==
    {p \o b \o x : p \in NumberPrefixes, b \in NumberBodies,
                   x \in NumberSuffixes}

\* is_valid_number(arg) is called.
CallIsValidNumber ==
    /\ ret = <<>>
    /\ ret' = <<is_valid_number(arg)>>
    /\ UNCHANGED <<conversations, delivery, before, outbox, upload, response,
                   wizard, cancelled, tasks, arg>>

InitNumber == InitValidator(NumberInputs)

NextNumber == CallIsValidNumber

SpecNumber == InitNumber /\ [][NextNumber]_vars

\* C16: is_valid_number returns True exactly for the non-empty strings of
\* decimal digits whose value is at least 1; a string with a sign, a space,
\* a separator or any other character is rejected.
C16_NumberValidatorExact ==
    ret # <<>> => ret[1] = (arg # <<>> /\ AllDigits(arg) /\ ToInt(arg) >= 1)

----------------------------------------------------------------------------
(* Restart                                                                 *)

\* The fields a state can hold at a step: those of the steps before it.
FieldsAt(step) ==
    CASE step = 1 -> {{"step"}}
      [] step = 2 -> {{"step", "date"}}
      [] step = 3 -> {{"step", "date", "event_type"}}
      [] OTHER    -> {{"step", "date", "event_type", "location"},
                      {"step", "date", "event_type", "location", "guests"}}

\* C17: the start button of a sender that has a state, at whatever step,
\* replaces the state with one at step 1 without any field and posts the date
\* prompt; no state holds a field of its own step or of a later one, so the
\* fields of a summary were all written after the restart.
C17_RestartIsFresh ==
    /\ (Handled /\ IsStart /\ Sender \in DOMAIN before)
       => /\ Sender \in DOMAIN conversations
          /\ conversations[Sender] = [step |-> 1]
          /\ Briefs(outbox) = << <<"text", Sender, "DatePrompt">> >>
    /\ \A s \in DOMAIN conversations :
          DOMAIN conversations[s] \in FieldsAt(conversations[s]["step"])

\* Witness of C17: the start button of a sender at step 4.
C17_Witness ==
    /\ Handled /\ IsStart
    /\ StepIn(before, Sender) = 4
    /\ "location" \in DOMAIN before[Sender]
    /\ conversations[Sender] = [step |-> 1]

----------------------------------------------------------------------------
(* Interactive replies that do not apply                                   *)

\* A list reply of a sender that is not at step 2, or a button reply whose
\* id is not "start".
Inapplicable ==
    \/ delivery.shape = "List" /\ StepIn(before, Sender) # 2
    \/ delivery.shape = "Button" /\ delivery.id # "start"

\* C18: a list reply of a sender without a state or at a step other than 2,
\* and a button reply whose id is not "start", leave the whole store as it
\* was and post nothing.
C18_InapplicableRepliesNoOp ==
    (Handled /\ Inapplicable)
    => /\ conversations = before
       /\ outbox = <<>>
       /\ upload = "NotCalled"

\* Witness of C18: a list reply of a sender at step 3, whose event type is
\* kept.
C18_Witness ==
    /\ Handled /\ delivery.shape = "List"
    /\ StepIn(before, Sender) = 3
    /\ before[Sender]["event_type"] # delivery.text
    /\ conversations = before
    /\ outbox = <<>>

----------------------------------------------------------------------------
(* Senders do not see each other                                           *)

\* The posts of the outbox with the tag.
Tagged(tag) == {i \in 1..Len(outbox) : outbox[i].tag = tag}

\* The delivery is a guest count that passes the check, from a sender at
\* step 4.
Completes ==
    /\ IsText /\ ~IsCancel(delivery)
    /\ StepIn(before, Sender) = 4
    /\ is_valid_number(Text)

\* C19: the handling of a delivery of a sender leaves the state of every
\* other sender as it was and posts nothing to them; every post goes to the
\* sender, except the admin notification, which goes to the admin, at most
\* once and only for the guest count that completes a wizard.
C19_SendersIsolated ==
    Handled
    => /\ \A b \in Senders \ {Sender} :
             /\ (b \in DOMAIN conversations) = (b \in DOMAIN before)
             /\ StateIn(conversations, b) = StateIn(before, b)
             /\ \A i \in 1..Len(outbox) : outbox[i].to # b
       /\ \A i \in 1..Len(outbox) :
             IF outbox[i].tag = "AdminNotification"
             THEN outbox[i].to = ADMIN_PHONE
             ELSE outbox[i].to = Sender
       /\ Cardinality(Tagged("AdminNotification")) <= 1
       /\ Tagged("AdminNotification") # {} => Completes

\* Witness of C19: a wizard is completed, and the admin notified, while
\* another sender is in the middle of its own.
C19_Witness ==
    /\ Handled /\ Completes
    /\ Tagged("AdminNotification") # {}
    /\ \E b \in Senders \ {Sender} :
          /\ StepIn(before, b) = 4
          /\ conversations[b] = before[b]

----------------------------------------------------------------------------
(* Completing the wizard                                                   *)

\* The steps of the wizard: the answers from the date to the guest count.
MaxAnswers == 4

\* A delivery that answers the prompt of the step sender is at with a text
\* that passes the check of the step.
AnswerAt(conv, sender) ==
    CASE StepIn(conv, sender) = 1 -> Delivery("Text", sender, "", DateBody)
      [] StepIn(conv, sender) = 4 -> Delivery("Text", sender, "", CountBody)
      [] OTHER -> Delivery("Text", sender, "", WeddingTitle)

\* The store after sender, if it has no state, has tapped the start button.
Started(conv, sender, oc) ==
    IF sender \in DOMAIN conv THEN conv
    ELSE handle_webhook(conv, Delivery("Button", sender, "start", <<>>),
                        oc).conv

\* Within n answers of sender, one is handled by posting the two summaries
\* and removing the entry of sender.
RECURSIVE CompletesWithin(_, _, _, _)
CompletesWithin(conv, sender, oc, n) ==
    IF n = 0 \/ sender \notin DOMAIN conv THEN FALSE
    ELSE LET r == handle_webhook(conv, AnswerAt(conv, sender), oc)
         IN  \/ /\ sender \notin DOMAIN r.conv
                /\ \E i, j \in 1..Len(r.out) :
                      /\ r.out[i].tag = "CustomerConfirmation"
                      /\ r.out[j].tag = "AdminNotification"
             \/ CompletesWithin(r.conv, sender, oc, n - 1)

\* C20: between two requests, whatever the store holds, a sender that taps
\* the start button if it has no state, and then answers every prompt with a
\* text that passes the check, has after at most four answers been sent the
\* summaries and lost its entry.
C20_CanAlwaysComplete ==
    ~Handled
    => \A s \in Senders, oc \in Outcomes :
          CompletesWithin(Started(conversations, s, oc), s, oc, MaxAnswers)

====
